---- MODULE Spec2Model ----
(***************************************************************************)
(* Model of "Media/Blurify/Image to WebP.py": the quality policy           *)
(* (should_use_low_compression), the converter (convert_image_to_webp)     *)
(* and the scheduler (process_directory) with its 4-thread executor.       *)
(*                                                                         *)
(* File names are sequences of one-character strings, so that str.lower(), *)
(* str.upper(), the substring test, the glob match and with_suffix are     *)
(* computed rather than assumed.                                           *)
(***************************************************************************)
EXTENDS Naturals, Sequences, FiniteSets

(* ------------------------------ bounds -------------------------------- *)

\* Number of the sample trees of Trees the scheduler is run over.
MaxTrees == 2

\* Largest length of image_files in the runs that exercise the worker pool.
PoolEntries == 5

\* Largest number of failures the environment injects into one behaviour.
MaxFaults == 1

\* Largest reading of the file-system clock.
MaxTime == 2

\* Number of successive runs of process_directory over the same tree.
MaxRuns == 2

(* ------------------------- characters, strings ------------------------ *)

UpperChars == <<"A","B","C","D","E","F","G","H","I","J","K","L","M",
                "N","O","P","Q","R","S","T","U","V","W","X","Y","Z">>

LowerChars == <<"a","b","c","d","e","f","g","h","i","j","k","l","m",
                "n","o","p","q","r","s","t","u","v","w","x","y","z">>

\* str.lower() / str.upper() on one character.
LowerChar(c) ==
    IF \E i \in 1..26 : UpperChars[i] = c
    THEN LowerChars[CHOOSE i \in 1..26 : UpperChars[i] = c]
    ELSE c

UpperChar(c) ==
    IF \E i \in 1..26 : LowerChars[i] = c
    THEN UpperChars[CHOOSE i \in 1..26 : LowerChars[i] = c]
    ELSE c

Lower(s) == [i \in 1..Len(s) |-> LowerChar(s[i])]

Upper(s) == [i \in 1..Len(s) |-> UpperChar(s[i])]

\* Python's "sub in s".
Contains(s, sub) ==
    \E i \in 1..(Len(s) + 1) :
        /\ i + Len(sub) - 1 <= Len(s)
        /\ SubSeq(s, i, i + Len(sub) - 1) = sub

EndsWith(s, suf) ==
    /\ Len(suf) <= Len(s)
    /\ SubSeq(s, Len(s) - Len(suf) + 1, Len(s)) = suf

(* --------------------------- quality policy --------------------------- *)

thumbnail_indicators ==
    << <<"t","h","u","m","b">>,
       <<"t","h","u","m","b","n","a","i","l">>,
       <<"b","a","n","n","e","r">>,
       <<"h","e","r","o">>,
       <<"l","a","r","g","e">>,
       <<"c","o","v","e","r">> ,
       <<"f","e","a","t","u","r","e","d">> >>

\* should_use_low_compression with the pixel threshold met at equality.
should_use_low_compression_ge(filename, img_width, img_height) ==
    LET filename_lower == Lower(filename)
        total_pixels == img_width * img_height
    IN  IF \E k \in 1..Len(thumbnail_indicators) :
                Contains(filename_lower, thumbnail_indicators[k])
        THEN TRUE
        ELSE IF total_pixels >= 800 * 600 THEN TRUE ELSE FALSE

\* Lines 7-32.
should_use_low_compression(filename, img_width, img_height) ==
    LET filename_lower == Lower(filename)
        total_pixels == img_width * img_height
    IN  IF \E k \in 1..Len(thumbnail_indicators) :
                Contains(filename_lower, thumbnail_indicators[k])
        THEN TRUE
        ELSE IF total_pixels > 800 * 600 THEN TRUE ELSE FALSE

default_quality == 75

low_compression_quality == 85

\* Lines 51-56 of convert_image_to_webp: the quality of the tier.
SelectQuality(low) ==
    IF low THEN low_compression_quality ELSE default_quality

(* ------------------------------ the tree ------------------------------ *)

\* Sample input trees; a file is its directory and its name.
\*   1: a.jpg and a.png, two inputs of one output path
\*   2: a.jpg, b.Jpg (mixed-case extension) and c.GIF (not supported)
\*   3: sub/a.TIF (upper-case extension, in a subdirectory)
Trees ==
    << { [dir |-> "root", name |-> <<"a",".","j","p","g">>],
         [dir |-> "root", name |-> <<"a",".","p","n","g">>] },
       { [dir |-> "root", name |-> <<"a",".","j","p","g">>],
         [dir |-> "root", name |-> <<"b",".","J","p","g">>],
         [dir |-> "root", name |-> <<"c",".","G","I","F">>] },
       { [dir |-> "sub", name |-> <<"a",".","T","I","F">>] } >>

\* Files with distinct stems and supported lower-case extensions, for the
\* runs that fill the worker pool.
PoolFiles ==
    << [dir |-> "root", name |-> <<"p",".","j","p","g">>],
       [dir |-> "root", name |-> <<"q",".","p","n","g">>],
       [dir |-> "root", name |-> <<"r",".","j","p","e","g">>],
       [dir |-> "root", name |-> <<"s",".","b","m","p">>],
       [dir |-> "root", name |-> <<"t",".","t","i","f">>],
       [dir |-> "root", name |-> <<"u",".","t","i","f","f">>],
       [dir |-> "root", name |-> <<"v",".","j","p","g">>] >>

supported_formats ==
    { <<".","j","p","g">>, <<".","j","p","e","g">>, <<".","p","n","g">>,
      <<".","b","m","p">>, <<".","t","i","f","f">>, <<".","t","i","f">> }

\* One rglob('*<ext>') match of one file name: pathlib compares the names
\* as they are on POSIX and case-folded on Windows.
GlobMatches(caseSensitive, name, ext) ==
    IF caseSensitive
    THEN EndsWith(name, ext)
    ELSE EndsWith(Lower(name), Lower(ext))

\* How many times lines 110-112 put file f into image_files.
Occurrences(caseSensitive, f) ==
    Cardinality({ext \in supported_formats : GlobMatches(caseSensitive, f.name, ext)})
    + Cardinality({ext \in supported_formats :
                        GlobMatches(caseSensitive, f.name, Upper(ext))})

\* Position of the last "." of a name, 0 when there is none.
LastDot(name) ==
    IF \E i \in 1..Len(name) : name[i] = "."
    THEN CHOOSE i \in 1..Len(name) :
            /\ name[i] = "."
            /\ \A j \in (i+1)..Len(name) : name[j] # "."
    ELSE 0

\* relative_path.with_suffix('.webp') under output_base_dir (line 124).
OutputPath(f) ==
    LET d == LastDot(f.name)
        stem == IF d > 1 THEN SubSeq(f.name, 1, d - 1) ELSE f.name
    IN  [dir |-> f.dir, name |-> stem \o <<".","w","e","b","p">>]

OutPaths(t) == {OutputPath(f) : f \in t}

(* ------------------------------- state -------------------------------- *)

max_workers == 4

\* An entry of image_files: a file and which of its occurrences it is
\* (a name matches at most the lower- and the upper-case pattern of one
\* format).
EntriesOf(t) == t \X (1..2)

VARIABLES
    case_sensitive,  \* whether rglob matches names case-sensitively (platform)
    tree,            \* the files under root_dir
    inMtime,         \* st_mtime of every input file
    now,             \* the file-system clock
    faults,          \* failures the environment has injected so far
    outputs,         \* the output tree: state and st_mtime of every output path
    run,             \* which run of process_directory this is
    pc,              \* where process_directory is
    status,          \* every image_files entry / future: where it is
    wrote,           \* what the entry's convert_image_to_webp call wrote
    queue,           \* the executor's work queue
    successful_conversions,
    ret,             \* the value process_directory returned
    ppc,             \* where the quality decision of one conversion is
    pname, pwidth, pheight,   \* the name and the size it decides on
    presult,         \* what should_use_low_compression returned
    pquality         \* the quality the converter saves with

vars == <<case_sensitive, tree, inMtime, now, faults, outputs, run, pc, status,
          wrote, queue, successful_conversions, ret,
          ppc, pname, pwidth, pheight, presult, pquality>>

policyVars == <<ppc, pname, pwidth, pheight, presult, pquality>>

envVars == <<case_sensitive, tree, inMtime>>

NoOutputs(t) == [p \in OutPaths(t) |-> [state |-> "none", mtime |-> 0]]

NoEntries(t) == [e \in EntriesOf(t) |-> "absent"]

NothingWritten(t) == [e \in EntriesOf(t) |-> "none"]

Entries == DOMAIN status

NoPolicyCall ==
    /\ ppc = "none"
    /\ pname = <<>> /\ pwidth = 0 /\ pheight = 0
    /\ presult = FALSE /\ pquality = 0

\* The scheduler before a call of process_directory over tree t.
Idle(t) ==
    /\ tree = t
    /\ now = 1
    /\ faults = 0
    /\ outputs = NoOutputs(t)
    /\ run = 1
    /\ pc = "start"
    /\ status = NoEntries(t)
    /\ wrote = NothingWritten(t)
    /\ queue = <<>>
    /\ successful_conversions = 0
    /\ ret = <<>>

Init ==
    /\ case_sensitive \in BOOLEAN
    /\ \E i \in 1..MaxTrees : i <= Len(Trees) /\ Idle(Trees[i])
    /\ \E m \in 1..2 : inMtime = [f \in tree |-> m]
    /\ NoPolicyCall

(* ----------------------------- scheduler ------------------------------ *)

\* Lines 105-118: enumeration of the tree into image_files.
Enumerate ==
    /\ pc = "start"
    /\ pc' = "loop"
    /\ status' = [e \in Entries |->
                    IF e[1] \in tree /\ e[2] <= Occurrences(case_sensitive, e[1])
                    THEN "new" ELSE "absent"]
    /\ wrote' = NothingWritten(tree)
    /\ queue' = <<>>
    /\ successful_conversions' = 0
    /\ UNCHANGED <<envVars, now, faults, outputs, run, ret, policyVars>>

\* The freshness test with an output as old as its input taken for fresh.
IsFresh_ge(f) ==
    LET out == outputs[OutputPath(f)]
    IN  out.state # "none" /\ out.mtime >= inMtime[f]

\* The freshness test with the comparison the wrong way round.
IsFresh_reversed(f) ==
    LET out == outputs[OutputPath(f)]
    IN  out.state # "none" /\ out.mtime < inMtime[f]

\* Line 130: output_path.exists() and its st_mtime > the input's st_mtime.
IsFresh(f) ==
    LET out == outputs[OutputPath(f)]
    IN  out.state # "none" /\ out.mtime > inMtime[f]

\* The entries of one file are alike: the loop meets occurrence 1 first.
NextOccurrence(e) ==
    /\ status[e] = "new"
    /\ e[2] = 1 \/ status[<<e[1], 1>>] # "new"

\* Lines 121-142, one iteration of the dispatch loop. image_files is in
\* the order of a set iteration and of directory scans, which the code
\* does not fix: any entry not yet met can be the next one.
\* mkdir (line 127) and stat (line 130) are outside every try block.
LoopIteration(e) ==
    /\ pc = "loop"
    /\ NextOccurrence(e)
    /\ \E env \in {"ok", "mkdir_raises", "stat_raises"} :
        \/ /\ env = "ok"
           /\ IF IsFresh(e[1])
              THEN /\ status' = [status EXCEPT ![e] = "skipped"]
                   /\ queue' = queue
              ELSE /\ status' = [status EXCEPT ![e] = "queued"]
                   /\ queue' = Append(queue, e)
           /\ UNCHANGED <<pc, faults>>
        \/ /\ env = "mkdir_raises"
           /\ faults < MaxFaults
           /\ faults' = faults + 1
           /\ pc' = "unwinding"
           /\ UNCHANGED <<status, queue>>
        \/ /\ env = "stat_raises"
           /\ faults < MaxFaults
           /\ outputs[OutputPath(e[1])].state # "none"
           /\ faults' = faults + 1
           /\ pc' = "unwinding"
           /\ UNCHANGED <<status, queue>>
    /\ UNCHANGED <<envVars, now, outputs, run, wrote,
                   successful_conversions, ret, policyVars>>

\* Line 145: the dispatch loop is over, as_completed begins.
LoopDone ==
    /\ pc = "loop"
    /\ \A e \in Entries : status[e] # "new"
    /\ pc' = "collect"
    /\ UNCHANGED <<envVars, now, faults, outputs, run, status, wrote,
                   queue, successful_conversions, ret, policyVars>>

Executing == {e \in Entries : status[e] = "running"}

\* An executor that starts a thread for every queued call.
CanStart_unbounded == TRUE

\* ThreadPoolExecutor(max_workers=4), line 118: a queued call starts only
\* on one of at most max_workers threads.
CanStart == Cardinality(Executing) < max_workers

\* A worker thread takes the next call off the queue.
StartTask ==
    /\ queue # <<>>
    /\ CanStart
    /\ status' = [status EXCEPT ![Head(queue)] = "running"]
    /\ queue' = Tail(queue)
    /\ UNCHANGED <<envVars, now, faults, outputs, run, pc, wrote,
                   successful_conversions, ret, policyVars>>

\* Lines 45-93, one call of convert_image_to_webp to its return.
\*   converted          every step succeeds: the file is saved, True
\*   fails_before_write open, mode conversion or the encoder fails before
\*                      anything is written: no file, False
\*   fails_in_write     save fails having written part of the file: False
\*   fails_after_write  save succeeds, a stat call of lines 80-81 or the
\*                      ratio of line 82 raises: the file stays, False
ConvertImage(e) ==
    /\ status[e] = "running"
    /\ \E env \in {"converted", "fails_before_write", "fails_in_write",
                   "fails_after_write"} :
        /\ env # "converted" => faults < MaxFaults
        /\ faults' = IF env = "converted" THEN faults ELSE faults + 1
        /\ status' = [status EXCEPT ![e] =
                        IF env = "converted" THEN "true" ELSE "false"]
        /\ outputs' =
            IF env = "fails_before_write" THEN outputs
            ELSE [outputs EXCEPT ![OutputPath(e[1])] =
                    [state |-> IF env = "fails_in_write" THEN "partial" ELSE "full",
                     mtime |-> now]]
        /\ wrote' = [wrote EXCEPT ![e] =
                        CASE env = "fails_before_write" -> "none"
                          [] env = "fails_in_write" -> "partial"
                          [] OTHER -> "full"]
    /\ UNCHANGED <<envVars, now, run, pc, queue,
                   successful_conversions, ret, policyVars>>

\* Lines 145-151: as_completed yields a finished future, its result is tallied.
Collect(e) ==
    /\ pc = "collect"
    /\ status[e] \in {"true", "false"}
    /\ status' = [status EXCEPT ![e] = IF status[e] = "true" THEN "true_seen"
                                                            ELSE "false_seen"]
    /\ successful_conversions' =
            IF status[e] = "true" THEN successful_conversions + 1
                                  ELSE successful_conversions
    /\ UNCHANGED <<envVars, now, faults, outputs, run, pc, wrote, queue,
                   ret, policyVars>>

Submitted == {e \in Entries : status[e] \notin {"absent", "new", "skipped"}}

Discovered == {e \in Entries : status[e] # "absent"}

\* Line 153, after the with block has joined the workers.
Return ==
    /\ pc = "collect"
    /\ \A e \in Submitted : status[e] \in {"true_seen", "false_seen"}
    /\ pc' = "returned"
    /\ ret' = <<successful_conversions, Cardinality(Discovered)>>
    /\ UNCHANGED <<envVars, now, faults, outputs, run, status, wrote,
                   queue, successful_conversions, policyVars>>

\* The with block's exit on an exception: shutdown(wait=True) lets every
\* submitted call finish, then the exception leaves process_directory.
Raise ==
    /\ pc = "unwinding"
    /\ \A e \in Submitted : status[e] \in {"true", "false"}
    /\ pc' = "raised"
    /\ UNCHANGED <<envVars, now, faults, outputs, run, status, wrote,
                   queue, successful_conversions, ret, policyVars>>

\* process_directory is called again over the same, unchanged tree.
Rerun ==
    /\ pc = "returned"
    /\ run < MaxRuns
    /\ run' = run + 1
    /\ pc' = "start"
    /\ status' = NoEntries(tree)
    /\ wrote' = NothingWritten(tree)
    /\ ret' = <<>>
    /\ successful_conversions' = 0
    /\ UNCHANGED <<envVars, now, faults, outputs, queue, policyVars>>

Tick ==
    /\ now < MaxTime
    /\ now' = now + 1
    /\ UNCHANGED <<envVars, faults, outputs, run, pc, status, wrote,
                   queue, successful_conversions, ret, policyVars>>

Next ==
    \/ Enumerate
    \/ \E e \in Entries : LoopIteration(e)
    \/ LoopDone
    \/ StartTask
    \/ \E e \in Entries : ConvertImage(e)
    \/ \E e \in Entries : Collect(e)
    \/ Return
    \/ Raise
    \/ Rerun
    \/ Tick

Spec == Init /\ [][Next]_vars

\* The same runs on a platform whose glob is case-sensitive.
InitPosix == Init /\ case_sensitive = TRUE

SpecPosix == InitPosix /\ [][Next]_vars

(* ------------------- one run that fills the worker pool --------------- *)

\* A tree whose image_files has at most PoolEntries entries: every file of
\* PoolFiles is found once by a case-sensitive glob and twice otherwise.
PoolTree(caseSensitive) ==
    {PoolFiles[i] : i \in 1..(IF caseSensitive THEN PoolEntries
                                               ELSE PoolEntries \div 2)}

InitPool ==
    /\ case_sensitive \in BOOLEAN
    /\ Idle(PoolTree(case_sensitive))
    /\ inMtime = [f \in tree |-> 1]
    /\ NoPolicyCall

NextPool ==
    \/ Enumerate
    \/ \E e \in Entries : LoopIteration(e)
    \/ LoopDone
    \/ StartTask
    \/ \E e \in Entries : ConvertImage(e)
    \/ \E e \in Entries : Collect(e)
    \/ Return
    \/ Raise

SpecPool == InitPool /\ [][NextPool]_vars

(* ------------------------- quality policy calls ----------------------- *)

\* Sample file names: the first set holds a keyword, the second does not.
KeywordNames ==
    { <<"t","h","u","m","b","n","a","i","l",".","p","n","g">>,
      <<"B","a","n","n","e","r",".","P","N","G">>,
      <<"H","E","R","O",".","j","p","g">>,
      <<"x","l","a","r","g","e","x",".","b","m","p">>,
      <<"C","o","v","e","r",".","t","i","f">>,
      <<"f","e","a","t","u","r","e","d",".","j","p","e","g">>,
      <<"T","H","U","M","B",".","J","P","G">> }

PlainNames ==
    { <<"x",".","p","n","g">>,
      <<"t","h","u","m",".","p","n","g">>,
      <<"p","h","o","t","o",".","j","p","g">> }

SampleWidths == {1, 10, 800, 801}

SampleHeights == {1, 10, 600, 601}

InitPolicy ==
    /\ case_sensitive = TRUE
    /\ Idle({})
    /\ inMtime = [f \in tree |-> 1]
    /\ pname \in KeywordNames \cup PlainNames
    /\ pwidth \in SampleWidths
    /\ pheight \in SampleHeights
    /\ ppc = "opened"
    /\ presult = FALSE
    /\ pquality = 0

schedulerVars == <<envVars, now, faults, outputs, run, pc, status, wrote, queue,
                   successful_conversions, ret>>

\* Line 51: the call of should_use_low_compression.
CallPolicy ==
    /\ ppc = "opened"
    /\ ppc' = "decided"
    /\ presult' = should_use_low_compression(pname, pwidth, pheight)
    /\ UNCHANGED <<schedulerVars, pname, pwidth, pheight, pquality>>

\* Lines 51-56: the quality convert_image_to_webp saves with.
ChooseQuality ==
    /\ ppc = "decided"
    /\ ppc' = "chosen"
    /\ pquality' = SelectQuality(presult)
    /\ UNCHANGED <<schedulerVars, pname, pwidth, pheight, presult>>

NextPolicy ==
    \/ CallPolicy
    \/ ChooseQuality

SpecPolicy == InitPolicy /\ [][NextPolicy]_vars

(* ------------------------------- claims ------------------------------- *)

\* C1: at no point of a run are more than 4 (the worker-pool size)
\* convert_image_to_webp calls executing at once.
C1_ConcurrencyCap ==
    Cardinality({e \in DOMAIN status : status[e] = "running"}) <= 4

\* C1 witness: four calls execute while a fifth waits in the queue.
C1_PoolFullWitness ==
    /\ Cardinality({e \in DOMAIN status : status[e] = "running"}) = 4
    /\ queue # <<>>

\* C2: when process_directory returns (successful, total), total is the
\* number of tasks dispatched to the pool and successful the number of them
\* that returned True, so 0 <= successful <= total.
C2_TotalCountsTasks ==
    pc = "returned" =>
        /\ ret[2] = Cardinality({e \in DOMAIN status :
                        status[e] \in {"true_seen", "false_seen"}})
        /\ ret[1] = Cardinality({e \in DOMAIN status : status[e] = "true_seen"})
        /\ ret[1] <= ret[2]
        /\ \A e \in DOMAIN status :
                status[e] \in {"absent", "skipped", "true_seen", "false_seen"}

\* C3: fault isolation. When exactly one discovered file failed to convert
\* (every other discovered file being a valid image), every other
\* discovered file has its output written and successful = total - 1.
C3_FaultIsolation ==
    LET failed == {f \in tree : \E k \in 1..2 : status[<<f, k>>] = "false_seen"}
        found  == {f \in tree : status[<<f, 1>>] # "absent"}
    IN  (pc = "returned" /\ Cardinality(failed) = 1) =>
            /\ \A f \in found \ failed : outputs[OutputPath(f)].state = "full"
            /\ ret[1] + 1 = ret[2]

AllOutputsNewer ==
    \A f \in tree :
        Occurrences(case_sensitive, f) > 0 =>
            /\ outputs[OutputPath(f)].state # "none"
            /\ outputs[OutputPath(f)].mtime > inMtime[f]

NothingDispatched ==
    \A e \in DOMAIN status :
        status[e] \in {"absent", "new", "skipped"} /\ wrote[e] = "none"

C5_FailureWritesNothing ==
    \A e \in DOMAIN status :
        /\ status[e] \in {"false", "false_seen"} => wrote[e] = "none"
        /\ status[e] \in {"true", "true_seen"} => wrote[e] = "full"

\* The extension of a name, lower-cased, is one of the six formats.
SupportedAnyCase(f) ==
    LET d == LastDot(f.name)
    IN  /\ d > 0
        /\ Lower(SubSeq(f.name, d, Len(f.name))) \in
                { <<".","j","p","g">>, <<".","j","p","e","g">>, <<".","p","n","g">>,
                  <<".","b","m","p">>, <<".","t","i","f","f">>, <<".","t","i","f">> }

\* C6: enumeration discovers a file exactly once if its extension, compared
\* case-insensitively, is jpg, jpeg, png, bmp, tiff or tif, and never
\* otherwise; a file that is not discovered gets no output file.
C6_DiscoveredIffSupported ==
    pc # "start" =>
        \A f \in tree :
            LET n == Cardinality({k \in 1..2 : status[<<f, k>>] # "absent"})
            IN  IF SupportedAnyCase(f) THEN n = 1 ELSE n = 0

\* C7: whatever per-file failure occurs, process_directory does not raise.
C7_NeverRaises ==
    pc \notin {"unwinding", "raised"}

\* C8: should_use_low_compression returns a Boolean equal to the reference
\* rule: True if the lower-cased name holds a keyword, else True if
\* width * height > 480000, else False (800 x 600 is False, 801 x 600 True);
\* the converter then saves with quality 85 for True and 75 for False.
C8_PolicyMatchesRule ==
    ppc \in {"decided", "chosen"} =>
        /\ presult \in BOOLEAN
        /\ presult = (pname \in KeywordNames \/ pwidth * pheight > 480000)
        /\ (pname \in PlainNames /\ pwidth = 800 /\ pheight = 600) => presult = FALSE
        /\ (pwidth = 801 /\ pheight = 600) => presult = TRUE
        /\ ppc = "chosen" => pquality = (IF presult THEN 85 ELSE 75)

\* C8 witness: a name without keyword at exactly 800 x 600 was judged
\* STANDARD and given quality 75.
C8_ThresholdWitness ==
    /\ pname \in PlainNames
    /\ pwidth = 800 /\ pheight = 600
    /\ ppc = "chosen"
    /\ presult = FALSE
    /\ pquality = 75

\* C9: the loop skips a discovered file if and only if, when it checks it,
\* the output path exists with a modification time strictly greater than
\* the input's; otherwise (no output, or one equal or older) it dispatches
\* the file to the converter.
C9_SkipIffStrictlyNewer ==
    [][ \A e \in DOMAIN status :
            (status[e] = "new" /\ status'[e] # "new") =>
                LET out == outputs[OutputPath(e[1])]
                IN  IF out.state # "none" /\ out.mtime > inMtime[e[1]]
                    THEN status'[e] = "skipped" /\ queue' = queue
                    ELSE status'[e] = "queued" /\ queue' = Append(queue, e) ]_vars

\* C9 witness: in one run a file is skipped while another, whose output
\* exists but is not newer than its input, is dispatched.
C9_SkipAndDispatchWitness ==
    /\ \E e \in DOMAIN status : status[e] = "skipped"
    /\ \E e \in DOMAIN status :
            /\ status[e] = "queued"
            /\ outputs[OutputPath(e[1])].state # "none"
            /\ outputs[OutputPath(e[1])].mtime <= inMtime[e[1]]

\* C10: at most one task is dispatched per discovered input file and no two
\* tasks of a run have the same output path.
C10_TasksIndependent ==
    \A e1, e2 \in DOMAIN status :
        ( /\ e1 # e2
          /\ status[e1] \notin {"absent", "new", "skipped"}
          /\ status[e2] \notin {"absent", "new", "skipped"} )
        => /\ e1[1] # e2[1]
           /\ OutputPath(e1[1]) # OutputPath(e2[1])

====
